---- MODULE Spec2Model ----
(***************************************************************************)
(* DostyqTV support bot (src/main.py, class DostyqTVBot).                  *)
(*                                                                         *)
(* State: the configuration read at construction (GEMINI_API_KEY,          *)
(* ADMIN_IDS), the SQLite store (tables users and tickets, the             *)
(* sqlite_sequence counter behind AUTOINCREMENT), the clock, and a record  *)
(* of the most recently processed update (which handler ran, the calls it  *)
(* made in order, the SQL it executed, the reply it sent), kept until the   *)
(* dispatcher is done with that update.                                    *)
(*                                                                         *)
(* Text is a sequence of Unicode code points, so that str.lower() and the  *)
(* substring test `word in message_lower` are computed, not assumed.       *)
(*                                                                         *)
(* Every handler runs its database statements without an await between     *)
(* sqlite3.connect and conn.close (sqlite3 is synchronous), so the event   *)
(* loop never switches inside save_user, create_ticket or the three        *)
(* SELECTs of get_stats, and no handler touches the store more than once.  *)
(* Concurrent handlers therefore act on the store as a sequence of these   *)
(* atomic groups in some order; one action per handler, taken in any       *)
(* order by any sender, covers every such interleaving.                    *)
(***************************************************************************)
EXTENDS Integers, Sequences, FiniteSets, TLC

\* Bounds of the model.
MaxFrags == 2
MaxClock == 1
MaxTickets == 2

VARIABLES GEMINI_API_KEY, ADMIN_IDS, db, now, last, lastSaved, returned

vars == <<GEMINI_API_KEY, ADMIN_IDS, db, now, last, lastSaved, returned>>

Range(s) == {s[i] : i \in DOMAIN s}

Count(s, e) == Cardinality({i \in DOMAIN s : s[i] = e})

\* The position of the first occurrence of e in s, 0 when there is none.
IndexOf(s, e) == IF e \in Range(s) THEN CHOOSE i \in DOMAIN s : s[i] = e /\ \A j \in 1..(i - 1) : s[j] # e ELSE 0

SetMax(S) == IF S = {} THEN 0 ELSE CHOOSE x \in S : \A y \in S : y <= x

(***************************************************************************)
(* Text: code points, str.lower(), the substring test.                     *)
(***************************************************************************)

\* str.lower() on one code point: A-Z, and the Cyrillic capitals
\* U+0410..U+042F (to U+0430..U+044F) and U+0400..U+040F (to U+0450..U+045F).
LowerChar(c) == IF (c >= 65 /\ c <= 90) \/ (c >= 1040 /\ c <= 1071) THEN c + 32 ELSE IF c >= 1024 /\ c <= 1039 THEN c + 80 ELSE c

lower(s) == [i \in DOMAIN s |-> LowerChar(s[i])]

\* Python's `word in text` for strings: word occurs as a contiguous substring.
Contains(text, word) == \E i \in 0..(Len(text) - Len(word)) : SubSeq(text, i + 1, i + Len(word)) = word

\* any(word in text for word in words)
AnyWordIn(words, text) == \E k \in DOMAIN words : Contains(text, words[k])

\* The keywords of get_fallback_response, as code points (transliterated names).
kw_programma == <<1087, 1088, 1086, 1075, 1088, 1072, 1084, 1084, 1072>>
kw_raspisanie == <<1088, 1072, 1089, 1087, 1080, 1089, 1072, 1085, 1080, 1077>>
kw_peredach == <<1087, 1077, 1088, 1077, 1076, 1072, 1095>>
kw_kachestvo == <<1082, 1072, 1095, 1077, 1089, 1090, 1074, 1086>>
kw_plokho == <<1087, 1083, 1086, 1093, 1086>>
kw_tormozit == <<1090, 1086, 1088, 1084, 1086, 1079, 1080, 1090>>
kw_zavisaet == <<1079, 1072, 1074, 1080, 1089, 1072, 1077, 1090>>
kw_nastroit == <<1085, 1072, 1089, 1090, 1088, 1086, 1080, 1090, 1100>>
kw_kanal == <<1082, 1072, 1085, 1072, 1083>>
kw_nayti == <<1085, 1072, 1081, 1090, 1080>>
kw_kontakt == <<1082, 1086, 1085, 1090, 1072, 1082, 1090>>
kw_telefon == <<1090, 1077, 1083, 1077, 1092, 1086, 1085>>
kw_svyazatsya == <<1089, 1074, 1103, 1079, 1072, 1090, 1100, 1089, 1103>>
kw_reklama == <<1088, 1077, 1082, 1083, 1072, 1084, 1072>>
kw_razmeshchenie == <<1088, 1072, 1079, 1084, 1077, 1097, 1077, 1085, 1080, 1077>>

ScheduleWords == <<kw_programma, kw_raspisanie, kw_peredach>>
QualityWords == <<kw_kachestvo, kw_plokho, kw_tormozit, kw_zavisaet>>
SetupWords == <<kw_nastroit, kw_kanal, kw_nayti>>
ContactWords == <<kw_kontakt, kw_telefon, kw_svyazatsya>>
AdvertisingWords == <<kw_reklama, kw_razmeshchenie>>

\* The canned answers (their ASCII content; each is a non-empty literal in the source).
ANSWER_SCHEDULE == "schedule: dostyq.tv, section 'Katalog'"
ANSWER_QUALITY == "quality: restart the set-top box; +7 771 300 05 02, +7 702 300 05 01"
ANSWER_SETUP == "setup: position 44 in cable networks"
ANSWER_CONTACT == "contacts: +7 777 013 3812, support@dostyq.tv, https://dostyq.tv"
ANSWER_ADVERTISING == "advertising: reklama@dostyq.tv, +7 (727) 24-24-25"
ANSWER_GREETING == "greeting: use /help or describe your problem"

\* A plausible slip: the keywords are tested against the message as typed.
get_fallback_response_no_lower(user_message) == IF AnyWordIn(ScheduleWords, user_message) THEN ANSWER_SCHEDULE ELSE IF AnyWordIn(QualityWords, user_message) THEN ANSWER_QUALITY ELSE IF AnyWordIn(SetupWords, user_message) THEN ANSWER_SETUP ELSE IF AnyWordIn(ContactWords, user_message) THEN ANSWER_CONTACT ELSE IF AnyWordIn(AdvertisingWords, user_message) THEN ANSWER_ADVERTISING ELSE ANSWER_GREETING

get_fallback_response(user_message) ==
    LET message_lower == lower(user_message)
    IN  IF AnyWordIn(ScheduleWords, message_lower) THEN ANSWER_SCHEDULE
        ELSE IF AnyWordIn(QualityWords, message_lower) THEN ANSWER_QUALITY
        ELSE IF AnyWordIn(SetupWords, message_lower) THEN ANSWER_SETUP
        ELSE IF AnyWordIn(ContactWords, message_lower) THEN ANSWER_CONTACT
        ELSE IF AnyWordIn(AdvertisingWords, message_lower) THEN ANSWER_ADVERTISING
        ELSE ANSWER_GREETING

(***************************************************************************)
(* Input messages: concatenations of at most MaxFrags fragments.  The      *)
(* fragments are every keyword, capitalised and upper-case spellings,      *)
(* pieces that only form a keyword when joined, and text with no keyword.  *)
(***************************************************************************)
frag_PLOKHO_upper == <<1055, 1051, 1054, 1061, 1054>>
frag_Kanal_capital == <<1050, 1072, 1085, 1072, 1083>>
frag_REKLAMA_upper == <<1056, 1045, 1050, 1051, 1040, 1052, 1040>>
frag_privet == <<1087, 1088, 1080, 1074, 1077, 1090>>
frag_space == <<32>>
frag_plo == <<1087, 1083, 1086>>
frag_kho == <<1093, 1086>>
frag_Hello == <<72, 101, 108, 108, 111>>

Fragments == Range(ScheduleWords) \cup Range(QualityWords) \cup Range(SetupWords) \cup Range(ContactWords) \cup Range(AdvertisingWords) \cup {frag_PLOKHO_upper, frag_Kanal_capital, frag_REKLAMA_upper, frag_privet, frag_space, frag_plo, frag_kho, frag_Hello}

RECURSIVE MessagesOf(_)
MessagesOf(n) == IF n = 0 THEN {<<>>} ELSE LET shorter == MessagesOf(n - 1) IN shorter \cup {m \o f : m \in shorter, f \in Fragments}

Messages == MessagesOf(MaxFrags)

\* The free-text messages the transport delivers in the bot's specification:
\* "Hello" (no keyword) and "PLOKHO kanal" (upper case; quality and channel setup).
Texts == {frag_Hello, frag_PLOKHO_upper \o frag_space \o kw_kanal}

(***************************************************************************)
(* Configuration (__init__).                                               *)
(***************************************************************************)

RECURSIVE split(_, _)
\* str.split(sep) for a one-character separator (given as its code point).
split(s, sep) == IF sep \notin Range(s) THEN <<s>> ELSE LET i == IndexOf(s, sep) IN <<SubSeq(s, 1, i - 1)>> \o split(SubSeq(s, i + 1, Len(s)), sep)

RECURSIVE int(_)
\* int(x) for a string of decimal digits.
int(x) == IF Len(x) = 1 THEN x[1] - 48 ELSE 10 * int(SubSeq(x, 1, Len(x) - 1)) + (x[Len(x)] - 48)

\* [int(x) for x in os.getenv('ADMIN_IDS', '').split(',') if x]; only membership
\* in the list is ever used, so it is kept as a set.
ParseAdminIds(env) == LET parts == split(env, 44) IN {int(parts[i]) : i \in {j \in DOMAIN parts : parts[j] # <<>>}}

\* Values of the ADMIN_IDS environment variable: unset or "" and "1,".
AdminEnvs == {<<>>, <<49, 44>>}

\* Values of GEMINI_API_KEY: "" stands for unset or empty (both are falsy).
\* run() refuses to start polling without a key, so the states with "" are
\* those of a bot object whose handlers are driven directly.
ApiKeys == {"", "key"}

(***************************************************************************)
(* Persistence layer: the SQLite store.  A connection is the store plus    *)
(* the statements executed on it and cursor.lastrowid.                     *)
(***************************************************************************)

\* Senders (update.effective_user): user 1 under two first names, user 2.
TgUsers == {[id |-> 1, username |-> "u1", first_name |-> "A", last_name |-> "X"], [id |-> 1, username |-> "u1", first_name |-> "B", last_name |-> "X"], [id |-> 2, username |-> "u2", first_name |-> "A", last_name |-> "Y"]}

UserIds == {u.id : u \in TgUsers}

\* date(t): the clock counts days.
Date(t) == t

\* The store after init_db on a new file.
EmptyDb == [users |-> {}, tickets |-> {}, sqlite_sequence |-> 0]

\* sqlite3.connect: the handler's connection.
connect(store) == [users |-> store.users, tickets |-> store.tickets, sqlite_sequence |-> store.sqlite_sequence, sql |-> <<>>, lastrowid |-> 0]

\* conn.commit(); conn.close(): what stays in the file.
StoreOf(conn) == [users |-> conn.users, tickets |-> conn.tickets, sqlite_sequence |-> conn.sqlite_sequence]

\* An executed statement; replaced counts the rows that OR REPLACE deleted.
Statement(stmt, table, write, replaced) == [stmt |-> stmt, table |-> table, write |-> write, replaced |-> replaced]

\* A plausible slip: plain INSERT semantics that keep the old row beside the new.
save_user_append(conn, user, t) == [conn EXCEPT !.users = @ \cup {[id |-> user.id, username |-> user.username, first_name |-> user.first_name, last_name |-> user.last_name, created_at |-> t, last_activity |-> t]}, !.sql = Append(@, Statement("INSERT OR REPLACE", "users", TRUE, 0))]

\* INSERT OR REPLACE INTO users (id, username, first_name, last_name, last_activity):
\* the row with the same primary key is deleted, the new row is inserted, and
\* created_at takes its default (the current time) again.
save_user(conn, user, t) ==
    LET row == [id |-> user.id, username |-> user.username, first_name |-> user.first_name,
                last_name |-> user.last_name, created_at |-> t, last_activity |-> t]
        conflicting == {r \in conn.users : r.id = row.id}
    IN  [conn EXCEPT !.users = (@ \ conflicting) \cup {row},
                     !.sql = Append(@, Statement("INSERT OR REPLACE", "users", TRUE, Cardinality(conflicting)))]

\* A plausible slip: returning cursor.rowcount (1 after an INSERT) for lastrowid.
create_ticket_rowcount(conn, user_id, message, category, t) == LET id == SetMax({conn.sqlite_sequence} \cup {r.id : r \in conn.tickets}) + 1 IN [conn EXCEPT !.tickets = @ \cup {[id |-> id, user_id |-> user_id, message |-> message, status |-> "open", created_at |-> t, resolved_at |-> "NULL", category |-> category]}, !.sqlite_sequence = id, !.lastrowid = 1, !.sql = Append(@, Statement("INSERT", "tickets", TRUE, 0))]

\* INSERT INTO tickets (user_id, message, category); id is INTEGER PRIMARY KEY
\* AUTOINCREMENT (one more than the largest rowid ever used), status defaults
\* to 'open', created_at to the current time, resolved_at to NULL.
\* The returned ticket_id is conn.lastrowid.
create_ticket(conn, user_id, message, category, t) ==
    LET id == SetMax({conn.sqlite_sequence} \cup {r.id : r \in conn.tickets}) + 1
        row == [id |-> id, user_id |-> user_id, message |-> message, status |-> "open",
                created_at |-> t, resolved_at |-> "NULL", category |-> category]
    IN  [conn EXCEPT !.tickets = @ \cup {row},
                     !.sqlite_sequence = id,
                     !.lastrowid = id,
                     !.sql = Append(@, Statement("INSERT", "tickets", TRUE, 0))]

\* The default of create_ticket's parameter category.
DefaultCategory == "general"

\* SELECT COUNT(*) FROM users
CountUsers(conn) == Cardinality(conn.users)

\* SELECT COUNT(*) FROM tickets WHERE status = "open"
CountOpenTickets(conn) == Cardinality({r \in conn.tickets : r.status = "open"})

\* SELECT COUNT(*) FROM tickets WHERE date(created_at) = date("now")
CountTodayTickets(conn, t) == Cardinality({r \in conn.tickets : Date(r.created_at) = Date(t)})

\* cursor.execute of one of the three SELECTs.
Select(conn, table) == [conn EXCEPT !.sql = Append(@, Statement("SELECT COUNT", table, FALSE, 0))]

(***************************************************************************)
(* Generation client: get_ai_response and _call_gemini.                    *)
(* A call returns a value or raises; its trace lists, in order, the        *)
(* outbound request, the log calls and the fallback calls it made.         *)
(***************************************************************************)

Return(value, trace) == [raised |-> FALSE, ret |-> value, trace |-> trace]

Raise(trace) == [raised |-> TRUE, ret |-> "", trace |-> trace]

AI_TEXT == "generated answer"

\* JSON bodies of a 200 response (objects are records, arrays are sequences).
Bodies == <<[error |-> "quota"], [candidates |-> <<>>], [candidates |-> <<[finishReason |-> "SAFETY"]>>], [candidates |-> <<[content |-> [role |-> "model"]]>>], [candidates |-> <<[content |-> [parts |-> <<>>]]>>], [candidates |-> <<[content |-> [parts |-> <<[inlineData |-> "png"]>>]]>>], [candidates |-> <<[content |-> [parts |-> <<[text |-> AI_TEXT]>>]]>>]>>

NoBody == [error |-> "none"]

Net(post_raises, status, json_raises, text_raises, body) == [post_raises |-> post_raises, status |-> status, json_raises |-> json_raises, text_raises |-> text_raises, body |-> body]

\* What the network does to one request: session.post raises; a non-200 status
\* whose body reads or fails to read; a 200 whose body is not JSON; a 200 with
\* each of the JSON bodies.
NetOutcomes == {Net(TRUE, 0, FALSE, FALSE, NoBody), Net(FALSE, 500, FALSE, FALSE, NoBody), Net(FALSE, 500, FALSE, TRUE, NoBody), Net(FALSE, 200, TRUE, FALSE, NoBody)} \cup {Net(FALSE, 200, FALSE, FALSE, Bodies[i]) : i \in DOMAIN Bodies}

\* result['candidates'][0]['content']['parts'][0]['text']: a missing key raises
\* KeyError, an empty list IndexError.
FirstCandidateText(result, trace) ==
    LET candidate == result.candidates[1]
    IN  IF "content" \notin DOMAIN candidate THEN Raise(trace)
        ELSE IF "parts" \notin DOMAIN candidate.content THEN Raise(trace)
        ELSE IF Len(candidate.content.parts) = 0 THEN Raise(trace)
        ELSE IF "text" \notin DOMAIN candidate.content.parts[1] THEN Raise(trace)
        ELSE Return(candidate.content.parts[1].text, trace)

FallbackAfterError(user_message, trace) == Return(get_fallback_response(user_message), trace \o <<"logger.error", "get_fallback_response">>)

call_gemini(user_message, net) ==
    LET posted == <<"session.post">>
    IN  IF net.post_raises THEN Raise(posted)
        ELSE IF net.status = 200
             THEN IF net.json_raises THEN Raise(posted)
                  ELSE IF "candidates" \in DOMAIN net.body /\ Len(net.body.candidates) > 0
                       THEN FirstCandidateText(net.body, posted)
                       ELSE FallbackAfterError(user_message, posted)
             ELSE IF net.text_raises THEN Raise(posted)
                  ELSE FallbackAfterError(user_message, posted)

\* A plausible slip: no try/except around the call.
get_ai_response_no_except(api_key, user_message, net) == IF api_key = "" THEN Return(get_fallback_response(user_message), <<"logger.warning", "get_fallback_response">>) ELSE call_gemini(user_message, net)

\* A plausible slip: the credential is not checked before the call.
get_ai_response_no_key_check(api_key, user_message, net) == LET called == call_gemini(user_message, net) IN IF called.raised THEN FallbackAfterError(user_message, called.trace) ELSE called

\* A plausible slip: a failed request is tried once more.
get_ai_response_retry(api_key, user_message, net) == IF api_key = "" THEN Return(get_fallback_response(user_message), <<"logger.warning", "get_fallback_response">>) ELSE LET called == call_gemini(user_message, net) IN IF called.raised THEN FallbackAfterError(user_message, called.trace \o call_gemini(user_message, net).trace) ELSE called

get_ai_response(api_key, user_message, net) ==
    IF api_key = ""
    THEN Return(get_fallback_response(user_message), <<"logger.warning", "get_fallback_response">>)
    ELSE LET called == call_gemini(user_message, net)
         IN  IF called.raised
             THEN FallbackAfterError(user_message, called.trace)
             ELSE called

(***************************************************************************)
(* Updates and the handlers.                                               *)
(***************************************************************************)

\* set_bot_commands registers start, help, schedule, contact, faq and ticket
\* with Telegram; /stats has a handler but is not registered.
AdvertisedCommands == {"start", "help", "schedule", "contact", "faq", "ticket"}

Commands == AdvertisedCommands \cup {"stats"}

\* The callback_data of every button the bot attaches (start, handle_message).
StartButtons == <<"schedule", "tech_support", "contacts", "faq">>

MessageButtons == <<"contacts", "create_ticket">>

CallbackData == Range(StartButtons) \cup Range(MessageButtons)

Update(kind, command, data, text, user) == [kind |-> kind, command |-> command, data |-> data, text |-> text, effective_user |-> user]

\* A message that starts with a bot command has the text "/..." (kept as "/").
CommandUpdates == {Update("message", c, "", <<47>>, u) : c \in Commands, u \in TgUsers}

CallbackUpdates == {Update("callback_query", "", d, <<>>, u) : d \in CallbackData, u \in TgUsers}

TextUpdates == {Update("message", "", "", m, u) : m \in Texts, u \in TgUsers}

Updates == CommandUpdates \cup CallbackUpdates \cup TextUpdates

NoStats == [total_users |-> 0, open_tickets |-> 0, today_tickets |-> 0, date |-> 0]

Reply(method, text, buttons) == [method |-> method, text |-> text, buttons |-> buttons, first_name |-> "", ticket_id |-> 0, stats |-> NoStats, parse_mode |-> ""]

NoReply == Reply("none", "", <<>>)

Handled(conn, trace, reply) == [conn |-> conn, trace |-> trace, reply |-> reply, response |-> ""]

\* A plausible slip: /start greets without saving the user.
start_no_save(conn, update, t) == Handled(conn, <<"reply_text">>, [Reply("reply_text", "welcome", StartButtons) EXCEPT !.first_name = update.effective_user.first_name])

start(conn, update, t) ==
    LET user == update.effective_user
        saved == save_user(conn, user, t)
    IN  Handled(saved, <<"save_user", "reply_text">>,
                [Reply("reply_text", "welcome", StartButtons) EXCEPT !.first_name = user.first_name])

help_command(conn, update, t) == Handled(conn, <<"reply_text">>, Reply("reply_text", "help", <<>>))

TICKET_MESSAGE == "user requested a ticket"

ticket_command(conn, update, t) ==
    LET user_id == update.effective_user.id
        created == create_ticket(conn, user_id, TICKET_MESSAGE, DefaultCategory, t)
        ticket_id == created.lastrowid
        method == IF update.kind = "callback_query" THEN "edit_message_text" ELSE "reply_text"
    IN  Handled(created, <<"create_ticket", method>>,
                [Reply(method, "ticket created", <<>>) EXCEPT !.ticket_id = ticket_id])

Prefixed(event, handled) == [handled EXCEPT !.trace = <<event>> \o @]

handle_callback(conn, update, t) ==
    LET data == update.data
        edit(text) == Handled(conn, <<"answer", "edit_message_text">>, Reply("edit_message_text", text, <<>>))
    IN  IF data = "schedule" THEN edit("schedule")
        ELSE IF data = "tech_support" THEN edit("tech_support")
        ELSE IF data = "contacts" THEN edit("contacts")
        ELSE IF data = "faq" THEN edit("faq")
        ELSE IF data = "create_ticket" THEN Prefixed("answer", ticket_command(conn, update, t))
        ELSE Handled(conn, <<"answer">>, NoReply)

\* A plausible slip: the three SELECTs run before the admin check.
get_stats_query_first(conn, update, admin_ids, t) == LET queried == Select(Select(Select(conn, "users"), "tickets"), "tickets") IN IF update.effective_user.id \notin admin_ids THEN Handled(queried, <<"reply_text">>, Reply("reply_text", "permission denied", <<>>)) ELSE Handled(queried, <<"reply_text">>, [Reply("reply_text", "stats", <<>>) EXCEPT !.stats = [total_users |-> CountUsers(conn), open_tickets |-> CountOpenTickets(conn), today_tickets |-> CountTodayTickets(conn, t)]])

get_stats(conn, update, admin_ids, t) ==
    IF update.effective_user.id \notin admin_ids
    THEN Handled(conn, <<"reply_text">>, Reply("reply_text", "permission denied", <<>>))
    ELSE LET queried == Select(Select(Select(conn, "users"), "tickets"), "tickets")
             stats == [total_users |-> CountUsers(conn),
                       open_tickets |-> CountOpenTickets(conn),
                       today_tickets |-> CountTodayTickets(conn, t),
                       date |-> t]
         IN  Handled(queried, <<"reply_text">>, [Reply("reply_text", "stats", <<>>) EXCEPT !.stats = stats])

\* A plausible slip: the reply carries the keyword answer, not the returned value.
handle_message_reply_fallback(conn, update, api_key, net, t) == LET saved == save_user(conn, update.effective_user, t) ai == get_ai_response(api_key, update.text, net) IN [conn |-> saved, trace |-> <<"save_user", "send_chat_action", "get_ai_response">> \o ai.trace \o <<"reply_text">>, reply |-> [Reply("reply_text", get_fallback_response(update.text), MessageButtons) EXCEPT !.parse_mode = "MARKDOWN"], response |-> ai.ret]

handle_message(conn, update, api_key, net, t) ==
    LET saved == save_user(conn, update.effective_user, t)
        user_message == update.text
        ai == get_ai_response(api_key, user_message, net)
        before == <<"save_user", "send_chat_action", "get_ai_response">> \o ai.trace
    IN  IF ai.raised
        THEN [conn |-> saved, trace |-> before \o <<"raise">>, reply |-> NoReply, response |-> ""]
        ELSE [conn |-> saved, trace |-> before \o <<"reply_text">>,
              reply |-> [Reply("reply_text", ai.ret, MessageButtons) EXCEPT !.parse_mode = "MARKDOWN"],
              response |-> ai.ret]

(***************************************************************************)
(* Dispatch (setup_handlers): the handlers in registration order, all in   *)
(* one group, so the first whose check_update accepts the update runs and  *)
(* no other does.                                                          *)
(***************************************************************************)

CommandHandler(command, callback) == [type |-> "CommandHandler", command |-> command, callback |-> callback]

handlers == <<CommandHandler("start", "start"), CommandHandler("help", "help_command"), CommandHandler("ticket", "ticket_command"), CommandHandler("stats", "get_stats"), [type |-> "CallbackQueryHandler", command |-> "", callback |-> "handle_callback"], [type |-> "MessageHandler", command |-> "", callback |-> "handle_message"]>>

\* CommandHandler: a message that starts with this command; CallbackQueryHandler
\* without a pattern: any callback query; MessageHandler(TEXT & ~COMMAND): a
\* message with text that does not start with a command.
check_update(handler, update) ==
    IF handler.type = "CommandHandler" THEN update.kind = "message" /\ update.command = handler.command
    ELSE IF handler.type = "CallbackQueryHandler" THEN update.kind = "callback_query"
    ELSE update.kind = "message" /\ Len(update.text) > 0 /\ update.command = ""

\* The callbacks that run for an update: the first accepting handler's, or none.
process_update(update) ==
    LET accepting == {i \in DOMAIN handlers : check_update(handlers[i], update)}
    IN  IF accepting = {} THEN <<>>
        ELSE <<handlers[CHOOSE i \in accepting : \A j \in accepting : i <= j].callback>>

(***************************************************************************)
(* State and actions.                                                      *)
(***************************************************************************)

NoUpdate == Update("none", "", "", <<>>, [id |-> 0, username |-> "", first_name |-> "", last_name |-> ""])

NoNet == Net(FALSE, 0, FALSE, FALSE, NoBody)

\* The record of one processed update.
Processed(update, ran, handled, net) == [update |-> update, handlers |-> ran, trace |-> handled.trace, sql |-> handled.conn.sql, reply |-> handled.reply, response |-> handled.response, net |-> net]

\* No update is being processed.
NoneProcessed == Processed(NoUpdate, <<>>, Handled(connect(EmptyDb), <<>>, NoReply), NoNet)

Idle == last = NoneProcessed

NotSaved == [saved |-> FALSE, user |-> NoUpdate.effective_user, at |-> 0]

Init ==
    /\ GEMINI_API_KEY \in ApiKeys
    /\ ADMIN_IDS \in {ParseAdminIds(env) : env \in AdminEnvs}
    /\ db = EmptyDb
    /\ now = 0
    /\ last = NoneProcessed
    /\ lastSaved = [id \in UserIds |-> NotSaved]
    /\ returned = <<>>

\* The handler's connection is committed and closed; the history variables
\* lastSaved (the arguments of the latest save_user per id) and returned (the
\* create_ticket calls and what each returned) follow the calls it made.
Commit(update, handled, net) ==
    /\ db' = StoreOf(handled.conn)
    /\ last' = Processed(update, process_update(update), handled, net)
    /\ lastSaved' = IF "save_user" \in Range(handled.trace)
                    THEN [lastSaved EXCEPT ![update.effective_user.id] = [saved |-> TRUE, user |-> update.effective_user, at |-> now]]
                    ELSE lastSaved
    /\ returned' = IF "create_ticket" \in Range(handled.trace)
                   THEN Append(returned, [ticket_id |-> handled.reply.ticket_id, user_id |-> update.effective_user.id, message |-> TICKET_MESSAGE])
                   ELSE returned
    /\ UNCHANGED <<GEMINI_API_KEY, ADMIN_IDS, now>>

Start ==
    /\ Idle
    /\ \E update \in CommandUpdates :
        /\ process_update(update) = <<"start">>
        /\ \E handled \in {start(connect(db), update, now)} : Commit(update, handled, NoNet)

Help ==
    /\ Idle
    /\ \E update \in CommandUpdates :
        /\ process_update(update) = <<"help_command">>
        /\ \E handled \in {help_command(connect(db), update, now)} : Commit(update, handled, NoNet)

Ticket ==
    /\ Idle
    /\ Cardinality(db.tickets) < MaxTickets
    /\ \E update \in CommandUpdates :
        /\ process_update(update) = <<"ticket_command">>
        /\ \E handled \in {ticket_command(connect(db), update, now)} : Commit(update, handled, NoNet)

Stats ==
    /\ Idle
    /\ \E update \in CommandUpdates :
        /\ process_update(update) = <<"get_stats">>
        /\ \E handled \in {get_stats(connect(db), update, ADMIN_IDS, now)} : Commit(update, handled, NoNet)

Callback ==
    /\ Idle
    /\ \E update \in CallbackUpdates :
        /\ process_update(update) = <<"handle_callback">>
        /\ update.data = "create_ticket" => Cardinality(db.tickets) < MaxTickets
        /\ \E handled \in {handle_callback(connect(db), update, now)} : Commit(update, handled, NoNet)

\* The network outcome is drawn only when a request is made.
Message ==
    /\ Idle
    /\ \E update \in TextUpdates, net \in (IF GEMINI_API_KEY = "" THEN {NoNet} ELSE NetOutcomes) :
        /\ process_update(update) = <<"handle_message">>
        /\ \E handled \in {handle_message(connect(db), update, GEMINI_API_KEY, net, now)} : Commit(update, handled, net)

\* An update no handler accepts is dropped by the dispatcher.
Unhandled ==
    /\ Idle
    /\ \E update \in Updates :
        /\ process_update(update) = <<>>
        /\ Commit(update, Handled(connect(db), <<>>, NoReply), NoNet)

\* process_update returns: the dispatcher takes the next update.
Done ==
    /\ ~Idle
    /\ last' = NoneProcessed
    /\ UNCHANGED <<GEMINI_API_KEY, ADMIN_IDS, db, now, lastSaved, returned>>

\* Time passes between updates.
Tick ==
    /\ Idle
    /\ now < MaxClock
    /\ now' = now + 1
    /\ UNCHANGED <<GEMINI_API_KEY, ADMIN_IDS, db, last, lastSaved, returned>>

Next == Start \/ Help \/ Ticket \/ Stats \/ Callback \/ Message \/ Unhandled \/ Done \/ Tick

Spec == Init /\ [][Next]_vars

\* get_fallback_response applied to a message of Messages.
FallbackCall ==
    /\ Idle
    /\ \E m \in Messages :
        /\ last' = [Processed(Update("message", "", "", m, NoUpdate.effective_user), <<"get_fallback_response">>, Handled(connect(db), <<"get_fallback_response">>, NoReply), NoNet) EXCEPT !.response = get_fallback_response(m)]
        /\ UNCHANGED <<GEMINI_API_KEY, ADMIN_IDS, db, now, lastSaved, returned>>

NextFallback == FallbackCall \/ Done

SpecFallback == Init /\ [][NextFallback]_vars

(***************************************************************************)
(* Properties.                                                             *)
(***************************************************************************)

Ran(callback) == last.handlers = <<callback>>

Sender == last.update.effective_user

RowsOf(id) == {r \in db.users : r.id = id}

\* The position in a trace of the first message sent back to the user.
ReplyEvents == {"reply_text", "edit_message_text"}

FirstReply(trace) == IF \E i \in DOMAIN trace : trace[i] \in ReplyEvents THEN CHOOSE i \in DOMAIN trace : trace[i] \in ReplyEvents /\ \A j \in 1..(i - 1) : trace[j] \notin ReplyEvents ELSE 0

\* The five categories in the order the claim fixes, each with its canned answer.
Categories == <<[words |-> ScheduleWords, answer |-> ANSWER_SCHEDULE], [words |-> QualityWords, answer |-> ANSWER_QUALITY], [words |-> SetupWords, answer |-> ANSWER_SETUP], [words |-> ContactWords, answer |-> ANSWER_CONTACT], [words |-> AdvertisingWords, answer |-> ANSWER_ADVERTISING]>>

MatchingCategories(message) == {c \in DOMAIN Categories : \E w \in Range(Categories[c].words) : Contains(lower(message), w)}

\* C1: get_fallback_response returns the answer of the first category, in the
\* order schedule, quality, channel setup, contact, advertising, one of whose
\* keywords occurs in the lower-cased message, even when a later category
\* matches too; the generic greeting when none matches; never the empty string.
C1_FirstMatchingCategoryWins ==
    Ran("get_fallback_response") =>
        LET matching == MatchingCategories(last.update.text)
        IN  /\ matching # {} => \E c \in matching : (\A d \in matching : c <= d) /\ last.response = Categories[c].answer
            /\ matching = {} => last.response = ANSWER_GREETING
            /\ last.response # ""

\* An upper-case message that matches two categories got the earlier one's answer.
C1_Witness ==
    /\ Ran("get_fallback_response")
    /\ MatchingCategories(last.update.text) = {2, 3}
    /\ lower(last.update.text) # last.update.text
    /\ last.response = ANSWER_QUALITY

\* The body of a 200 response from which the first candidate's text can be read.
WellFormed(body) ==
    /\ "candidates" \in DOMAIN body
    /\ Len(body.candidates) > 0
    /\ "content" \in DOMAIN body.candidates[1]
    /\ "parts" \in DOMAIN body.candidates[1].content
    /\ Len(body.candidates[1].content.parts) > 0
    /\ "text" \in DOMAIN body.candidates[1].content.parts[1]

\* The generation call failed: the request or the reading of the body raised,
\* the status is not 200, or the body is not well formed.
GenerationFailed(net) == net.post_raises \/ net.status # 200 \/ net.json_raises \/ ~WellFormed(net.body)

\* C2: with a credential configured, whenever the generation call fails
\* (non-200 status, missing or empty candidate list, first candidate without
\* content/parts/text, an exception from the network call or the parsing),
\* get_ai_response returns get_fallback_response of the same message and no
\* exception escapes to handle_message.
C2_FailureFallsBack ==
    (Ran("handle_message") /\ GEMINI_API_KEY # "" /\ GenerationFailed(last.net)) =>
        /\ last.response = get_fallback_response(last.update.text)
        /\ "raise" \notin Range(last.trace)
        /\ last.reply.text = last.response

\* A request that raised was answered with the keyword answer.
C2_Witness ==
    /\ Ran("handle_message")
    /\ GEMINI_API_KEY # ""
    /\ last.net.post_raises
    /\ last.response = ANSWER_QUALITY

\* C3: without a credential, get_ai_response returns get_fallback_response of
\* the same message and makes no outbound request.
C3_NoCredentialDelegates ==
    (Ran("handle_message") /\ GEMINI_API_KEY = "") =>
        /\ last.response = get_fallback_response(last.update.text)
        /\ "session.post" \notin Range(last.trace)

C3_Witness ==
    /\ Ran("handle_message")
    /\ GEMINI_API_KEY = ""
    /\ last.response = ANSWER_QUALITY
    /\ "logger.warning" \in Range(last.trace)

\* C4: with a credential, one call of get_ai_response makes exactly one outbound
\* request whatever the outcome, and computes the fallback at most once.
C4_SingleAttempt ==
    (Ran("handle_message") /\ GEMINI_API_KEY # "") =>
        /\ Count(last.trace, "get_ai_response") = 1
        /\ Count(last.trace, "session.post") = 1
        /\ Count(last.trace, "get_fallback_response") <= 1

\* A 200 response whose body could not be parsed: one request, one fallback.
C4_Witness ==
    /\ Ran("handle_message")
    /\ GEMINI_API_KEY # ""
    /\ last.net.json_raises
    /\ Count(last.trace, "session.post") = 1
    /\ Count(last.trace, "get_fallback_response") = 1

\* C5: after any sequence of save_user calls the users table holds exactly one
\* row per id that was saved and none for any other id, and that row's name
\* fields and last_activity are those of the latest call for the id.
C5_OneRowPerUserLastWriteWins ==
    \A id \in UserIds :
        IF lastSaved[id].saved
        THEN /\ Cardinality(RowsOf(id)) = 1
             /\ \A r \in RowsOf(id) :
                    /\ r.username = lastSaved[id].user.username
                    /\ r.first_name = lastSaved[id].user.first_name
                    /\ r.last_name = lastSaved[id].user.last_name
                    /\ r.last_activity = lastSaved[id].at
        ELSE RowsOf(id) = {}

\* User 1 was saved again, later and under another first name, over an existing
\* row, while user 2 has a row as well.
C5_Witness ==
    /\ Ran("start") \/ Ran("handle_message")
    /\ Sender.id = 1
    /\ Sender.first_name = "B"
    /\ \E i \in DOMAIN last.sql : last.sql[i].stmt = "INSERT OR REPLACE" /\ last.sql[i].replaced = 1
    /\ now = 1
    /\ RowsOf(2) # {}

\* C6: every create_ticket call returns an identifier greater than every
\* identifier returned before it, no two tickets share an identifier, and the
\* row under the returned identifier has status "open", the given user_id and
\* message, and category "general".
C6_TicketIdsIncrease ==
    /\ \A i \in DOMAIN returned :
        /\ \A j \in 1..(i - 1) : returned[j].ticket_id < returned[i].ticket_id
        /\ \E r \in db.tickets :
            /\ r.id = returned[i].ticket_id
            /\ r.status = "open"
            /\ r.user_id = returned[i].user_id
            /\ r.message = returned[i].message
            /\ r.category = "general"
    /\ \A r1 \in db.tickets : \A r2 \in db.tickets : r1.id = r2.id => r1 = r2
    /\ Cardinality(db.tickets) = Len(returned)

\* Two tickets were created, by different users.
C6_Witness ==
    /\ Len(returned) >= 2
    /\ returned[1].user_id # returned[2].user_id
    /\ Ran("ticket_command") \/ Ran("handle_callback")

\* C7: /stats from a user outside the admin list (empty list included) is
\* answered with the permission-denied message and executes no statement at
\* all; from an admin it is answered with the three aggregates and writes
\* nothing.
C7_StatsAdminOnly ==
    Ran("get_stats") =>
        IF Sender.id \notin ADMIN_IDS
        THEN /\ last.reply.text = "permission denied"
             /\ last.sql = <<>>
        ELSE /\ last.reply.text = "stats"
             /\ last.reply.stats.total_users = Cardinality(db.users)
             /\ last.reply.stats.open_tickets = Cardinality({r \in db.tickets : r.status = "open"})
             /\ last.reply.stats.today_tickets = Cardinality({r \in db.tickets : r.created_at = now})
             /\ \A i \in DOMAIN last.sql : ~last.sql[i].write

\* A user who is not in a non-empty admin list was denied while the store held
\* users and tickets.
C7_Witness ==
    /\ Ran("get_stats")
    /\ ADMIN_IDS # {}
    /\ Sender.id \notin ADMIN_IDS
    /\ last.reply.text = "permission denied"
    /\ db.users # {}
    /\ db.tickets # {}

SavedBeforeReply ==
    /\ "save_user" \in Range(last.trace)
    /\ FirstReply(last.trace) > 0 => IndexOf(last.trace, "save_user") < FirstReply(last.trace)
    /\ RowsOf(Sender.id) # {}

C9_EveryUpdateHandledOnce ==
    ~Idle => Len(last.handlers) = 1 /\ last.reply.method # "none"

\* C10: handle_message saves the sender, then sends the typing indicator, then
\* calls get_ai_response once, then sends one reply whose text is the value
\* get_ai_response returned, with the two buttons 'contacts' and
\* 'create_ticket'; it creates no ticket.
C10_MessageSteps ==
    Ran("handle_message") =>
        LET trace == last.trace
        IN  /\ \A e \in {"save_user", "send_chat_action", "get_ai_response", "reply_text"} : Count(trace, e) = 1
            /\ IndexOf(trace, "save_user") < IndexOf(trace, "send_chat_action")
            /\ IndexOf(trace, "send_chat_action") < IndexOf(trace, "get_ai_response")
            /\ IndexOf(trace, "get_ai_response") < IndexOf(trace, "reply_text")
            /\ IndexOf(trace, "reply_text") = Len(trace)
            /\ last.reply.method = "reply_text"
            /\ last.reply.text = get_ai_response(GEMINI_API_KEY, last.update.text, last.net).ret
            /\ last.reply.buttons = <<"contacts", "create_ticket">>
            /\ "create_ticket" \notin Range(trace)
            /\ \A i \in DOMAIN last.sql : last.sql[i].table # "tickets"

\* The generated text was sent as the reply.
C10_Witness ==
    /\ Ran("handle_message")
    /\ last.reply.text = AI_TEXT
    /\ last.trace = <<"save_user", "send_chat_action", "get_ai_response", "session.post", "reply_text">>

====
